---- MODULE Spec2Model ----
(***************************************************************************)
(* A model of the parsec run engine (lib/run.js) and of the four requestor *)
(* factories built on it: parallel, race, sequence and fallback.           *)
(*                                                                         *)
(* One behaviour of the model is one invocation of one composite          *)
(* requestor.  The model's variables are the variables of the closures     *)
(* that this invocation creates (run's cancellors / nextNumber / timerId, *)
(* the requestorIndex of every startRequestor call, the counters of the   *)
(* factory's action callback), the host's timer table (the deferred       *)
(* startRequestor tasks and the time-limit timer) and a record of what    *)
(* the children and the composite's receiver have observed.                *)
(*                                                                         *)
(* A handler of the program (a deferred startRequestor task, a child's    *)
(* call of its receiver, the time-limit callback, the cancel function)    *)
(* runs to completion; it is an operator from state record to state       *)
(* record, and an action of the model applies one handler.  Handlers call *)
(* one another as the code does, so that a child cancellor which calls    *)
(* its own receiver re-enters the action callback inside cancel's forEach.*)
(***************************************************************************)
EXTENDS Integers, Sequences, FiniteSets, TLC

(***************************************************************************)
(* Bounds of the model.                                                    *)
(***************************************************************************)
\* the longest list of requestors (necessities ++ optionals) of a composite
MaxRequestors == 2

(***************************************************************************)
(* JavaScript values.                                                      *)
(***************************************************************************)
Undefined == [t |-> "undefined"]
Num(n) == [t |-> "number", n |-> n]
Arr(a) == [t |-> "array", a |-> a]
\* the { value, reason } object a receiver is called with
Result(value, reason) == [t |-> "result", value |-> value, reason |-> reason]
\* a thrown JavaScript exception of the engine's own code
TypeError == [t |-> "TypeError"]
ReferenceError == [t |-> "ReferenceError"]
\* "no exception is propagating"
NoExc == [t |-> "none"]

exists(value) == value # Undefined

Min(a, b) == IF a < b THEN a ELSE b

FactoryName ==
    [SEQUENCE |-> "sequence", PARALLEL |-> "parallel",
     FALLBACK |-> "fallback", RACE |-> "race"]

\* Reading a key the frozen object does not have gives undefined.
TimeOptionKeys ==
    {"SKIP_OPTIONALS_IF_TIME_REMAINS", "TRY_OPTIONALS_IF_TIME_REMAINS",
     "REQUIRE_NECESSITIES"}
TimeOptionValue ==
    [SKIP_OPTIONALS_IF_TIME_REMAINS |-> "skip opts",
     TRY_OPTIONALS_IF_TIME_REMAINS |-> "try opts",
     REQUIRE_NECESSITIES |-> "require necessities"]
Str(s) == [t |-> "string", s |-> s]
TimeOption(key) ==
    IF key \in TimeOptionKeys THEN Str(TimeOptionValue[key]) ELSE Undefined

\* makeReason: `{ ...error, evidence }`.  The message of the Error (which
\* holds the factory name and the excuse) is not an enumerable property, so
\* the spread copies nothing: the reason is the object { evidence }.
makeReason(factoryName, excuse, evidence) ==
    LET excuseText == IF exists(excuse) THEN "" ELSE ":excuse"
        error == [message |-> <<"parseq.", factoryName, excuseText>>]
        enumerable == {}   \* own enumerable keys of `error`
    IN  [t |-> "object", evidence |-> evidence]

(***************************************************************************)
(* The children.  A child is a requestor given by the caller; what it does *)
(* is an input of the model.  When launched it throws, or calls its        *)
(* receiver before returning, or returns and calls its receiver later; it  *)
(* may return a cancellor.                                                 *)
(***************************************************************************)
\* what the cancellor returned by a child does when called:
\*   "quiet"  stops the work (createDelayRequestor's cancelDelay)
\*   "echo"   calls the child's receiver with a reason of its own
\*            (customCancel with tryReceiver, create-ajax-requestor)
\*   "throws" throws
\*   "none"   the child returns no cancellor
CancellorKinds == {"none", "quiet", "echo", "throws"}
\* what the child does inside the call that launches it: it calls its
\* receiver with a value ("value") or with a reason ("fail"), or it returns
\* with its work under way ("none")
SyncKinds == {"value", "fail", "none"}
\* The behaviours of child idx that the model tries.  A child that calls its
\* receiver before it returns gives back no cancellor or a quiet one; only
\* the first child of the list may give back a cancellor that throws.
LaunchBehaviours(idx) ==
    { b \in [sync : SyncKinds, canc : CancellorKinds] :
        /\ b.sync # "none" => b.canc \in {"none", "quiet"}
        /\ b.canc = "throws" => idx = 0 }

\* the success value of child idx (0-based) for a message: a pure function
NumOf(message) == IF message.t = "number" THEN message.n ELSE 0
ChildValue(idx, message) == Num(2 * NumOf(message) + idx + 1)
\* the reason child idx fails with, and the value it throws
ChildReason(idx) == [t |-> "childReason", by |-> idx]
ChildThrown(idx) == [t |-> "error", by |-> idx]
\* the reason the cancellor of child idx calls the child's receiver with
ChildCancelled(idx) == [t |-> "cancelled", by |-> idx]

(***************************************************************************)
(* The factories.  A list of requestors is modelled by its length; what    *)
(* each requestor does is an input of the run.  The configuration hash of  *)
(* a factory is a record of JavaScript values, Undefined for an absent key.*)
(* The factories' validation of their arguments (checkRequestors, the      *)
(* check of timeOption against allTimeOptions, checkReceiver) is not part  *)
(* of the run: the runs of the model are those of a composite that has     *)
(* been built and is invoked with a receiver.                              *)
(***************************************************************************)
\* an array of n requestors
Requestors(n) == [t |-> "array", n |-> n]

\* getArrayLength: the length of an array, 0 for undefined
getArrayLength(candidateArray) ==
    IF exists(candidateArray) THEN candidateArray.n ELSE 0

\* parallel(necesseties, spec): the closure variables parallelRequestor uses
parallel(necesseties, spec) ==
    LET factoryName ==
            IF exists(spec.factoryName) THEN spec.factoryName.s
            ELSE FactoryName.PARALLEL
        given ==
            IF exists(spec.timeOption) THEN spec.timeOption
            ELSE TimeOption("SKIP_OPTIONALS_IF_TIME_REMAINS")
        numberOfNecessities == getArrayLength(necesseties)
        numberOfOptionals == getArrayLength(spec.optionals)
        requestors ==
            IF numberOfNecessities = 0
            THEN IF numberOfOptionals = 0 THEN 0 ELSE numberOfOptionals
            ELSE IF numberOfOptionals = 0 THEN numberOfNecessities
                 ELSE numberOfNecessities + numberOfOptionals
        timeOption ==
            IF numberOfNecessities = 0
            THEN IF numberOfOptionals = 0 THEN given
                 ELSE TimeOption("TRY_OPTIONALS_IF_TIME_REMAINS")
            ELSE IF numberOfOptionals = 0
                 THEN TimeOption("IGNORE_OPTIONALS_IF_TIME_REMAINS")
                 ELSE given
    IN  [requestor |-> "parallelRequestor",
         factoryName |-> factoryName,
         requestors |-> requestors,
         numberOfNecessities |-> numberOfNecessities,
         timeOption |-> timeOption,
         timeLimit |-> spec.timeLimit,
         throttle |-> spec.throttle]

\* sequence(requestors, spec)
sequence(requestors, spec) ==
    parallel(requestors,
             [optionals |-> Undefined,
              timeLimit |-> spec.timeLimit,
              timeOption |-> TimeOption("SKIP_OPTIONALS_IF_TIME_REMAINS"),
              throttle |-> Num(1),
              factoryName |-> Str(FactoryName.SEQUENCE)])

\* race(requestors, spec): the closure variables raceRequestor uses
race(requestors, spec) ==
    [requestor |-> "raceRequestor",
     factoryName |-> IF exists(spec.factoryName) THEN spec.factoryName.s
                     ELSE FactoryName.RACE,
     requestors |-> getArrayLength(requestors),
     numberOfNecessities |-> 0,
     timeOption |-> Undefined,
     timeLimit |-> spec.timeLimit,
     throttle |-> spec.throttle]

\* fallback(requestors, spec)
fallback(requestors, spec) ==
    race(requestors,
         [timeLimit |-> spec.timeLimit,
          throttle |-> Num(1),
          factoryName |-> Str(FactoryName.FALLBACK)])

(***************************************************************************)
(* The state of one invocation.                                            *)
(***************************************************************************)
VARIABLES
    composite,        \* what the factory built (constant during the run)
    givenMessage,     \* the message the composite is invoked with
    pc,               \* "built", "running", "returned" (empty list), "threw"
    \* run's closure
    runSpec,          \* the spec object run was called with
    live,             \* the variable `cancellors` holds the array
    cancellors,       \* the array of cancellor slots
    nextNumber,
    timerId,
    requestorIndex,   \* requestorIndex of the startRequestor call of child i
    \* the host
    queue,            \* deferred startRequestor tasks, by their message
    timerArmed,       \* the time-limit timer is pending
    \* the closure of parallelRequestor / raceRequestor
    numberPending,
    numberPendingNecessities,
    results,
    timeOption,
    receiver,         \* the variable `receiver` / `callback` holds the function
    cancelBound,      \* the variable `cancel` has been initialised
    \* what has been observed
    delivered,        \* the results the composite's receiver was called with
    child,            \* per child: state, message seen, cancellor calls
    actionCalls,      \* how often the action callback was called, per index
    flags,            \* events that have happened in this run
    cancelLog,        \* the calls of child cancellors, in order: <<index, reason>>
    thrown            \* what the factory or the invocation threw to its caller

vars ==
    <<composite, givenMessage, pc, runSpec, live, cancellors, nextNumber, timerId,
      requestorIndex, queue, timerArmed, numberPending,
      numberPendingNecessities, results, timeOption, receiver, cancelBound,
      delivered, child, actionCalls, flags, cancelLog, thrown>>

\* The current state as a record; `exc` is the exception that is
\* propagating while a handler runs (NoExc between handlers).
State ==
    [runSpec |-> runSpec, live |-> live, cancellors |-> cancellors,
     nextNumber |-> nextNumber, timerId |-> timerId,
     requestorIndex |-> requestorIndex, queue |-> queue,
     timerArmed |-> timerArmed, numberPending |-> numberPending,
     numberPendingNecessities |-> numberPendingNecessities,
     results |-> results, timeOption |-> timeOption, receiver |-> receiver,
     cancelBound |-> cancelBound, delivered |-> delivered, child |-> child,
     actionCalls |-> actionCalls, flags |-> flags, cancelLog |-> cancelLog,
     exc |-> NoExc]

\* The state a handler leaves: an exception that left the handler is
\* uncaught (the host reports it and goes on with the next task).
Commit(s) ==
    /\ runSpec' = s.runSpec
    /\ live' = s.live
    /\ cancellors' = s.cancellors
    /\ nextNumber' = s.nextNumber
    /\ timerId' = s.timerId
    /\ requestorIndex' = s.requestorIndex
    /\ queue' = s.queue
    /\ timerArmed' = s.timerArmed
    /\ numberPending' = s.numberPending
    /\ numberPendingNecessities' = s.numberPendingNecessities
    /\ results' = s.results
    /\ timeOption' = s.timeOption
    /\ receiver' = s.receiver
    /\ cancelBound' = s.cancelBound
    /\ delivered' = s.delivered
    /\ child' = s.child
    /\ actionCalls' = s.actionCalls
    /\ cancelLog' = s.cancelLog
    /\ flags' = IF s.exc = NoExc THEN s.flags
                ELSE s.flags \cup {<<"uncaught", s.exc.t>>}

Threw(s) == s.exc # NoExc
Flag(s, f) == [s EXCEPT !.flags = @ \cup {f}]

\* requestors.length of the running composite
Length == composite.requestors

(***************************************************************************)
(* Arrays with holes (`results`).                                          *)
(***************************************************************************)
Holes(n) == [k \in 1..n |-> Undefined]
\* a faulty SetIndex: the value is pushed, whatever the index
pushResult(a, idx, v) == Append(a, v)

\* a[idx] = v for a 0-based idx: an index past the end lengthens the array
SetIndex(a, idx, v) ==
    IF idx < Len(a) THEN [a EXCEPT ![idx + 1] = v]
    ELSE a \o Holes(idx - Len(a)) \o <<v>>
\* what a.pop() returns, and what it leaves
Pop(a) == IF a = <<>> THEN Undefined ELSE a[Len(a)]
Popped(a) == IF a = <<>> THEN a ELSE SubSeq(a, 1, Len(a) - 1)

isFunction(candidate) == candidate.t = "function"
Cancellor(idx, kind) ==
    IF kind = "none" THEN Undefined
    ELSE [t |-> "function", kind |-> kind, of |-> idx]

\* `statement; rest`: the rest is skipped when the statement threw
Then(s, rest(_)) == IF Threw(s) THEN s ELSE rest(s)

(***************************************************************************)
(* The composite's receiver, as the factory's closure calls it.            *)
(***************************************************************************)
\* receiver(result): calling the variable once it holds undefined throws
callReceiver(s, result) ==
    IF s.receiver THEN [s EXCEPT !.delivered = Append(@, result)]
    ELSE [s EXCEPT !.exc = TypeError]

\* a faulty clearReceiver: the variable keeps the function
keepReceiver(s) == s

\* receiver = undefined
clearReceiver(s) == [s EXCEPT !.receiver = FALSE]

(***************************************************************************)
(* The callbacks the factories give to run.                                *)
(***************************************************************************)
RECURSIVE cancel(_, _)
RECURSIVE startRequestor(_, _, _, _)

\* a faulty useCancel: nothing is cancelled
skipCancel(s, reason) == s

\* the factory's `cancel(reason)`: the variable is in its dead zone until
\* run has returned
useCancel(s, reason) ==
    IF s.cancelBound THEN cancel(s, reason)
    ELSE [s EXCEPT !.exc = ReferenceError]

\* parallel's action, first part: the result is stored and counted
parallelRecord(s, value, reason, idx) ==
    [s EXCEPT !.results = SetIndex(@, idx, Result(value, reason)),
              !.numberPending = @ - 1,
              !.numberPendingNecessities =
                    IF idx < composite.numberOfNecessities THEN @ - 1 ELSE @,
              !.actionCalls[idx + 1] = @ + 1]

\* the receiver call of parallel's action when the composite succeeds
parallelSuccess(s, reason) ==
    IF composite.factoryName = FactoryName.SEQUENCE
    THEN callReceiver([s EXCEPT !.results = Popped(@)], Pop(s.results))
    ELSE callReceiver(s, Result(Arr(s.results), reason))

\* a faulty parallelFinished: the time option is not looked at
nothingPending(s) == s.numberPending < 1

\* the finish condition of parallel's action
parallelFinished(s) ==
    \/ s.numberPending < 1
    \/ /\ s.timeOption = TimeOption("SKIP_OPTIONALS_IF_TIME_REMAINS")
       /\ s.numberPendingNecessities < 1

\* a faulty parallelDecide: the failure of any child fails the composite
anyFailureFails(s, value, reason, idx) ==
    IF ~exists(value)
    THEN Then(useCancel(s, reason),
              LAMBDA s1 :
                Then(callReceiver(s1, Result(Undefined, reason)),
                     clearReceiver))
    ELSE IF parallelFinished(s)
    THEN Then(useCancel(s, makeReason(composite.factoryName,
                                      Str("All necessities are complete"),
                                      Undefined)),
              LAMBDA s1 : Then(parallelSuccess(s1, reason), clearReceiver))
    ELSE s

\* parallel's action, second part: fail, finish or go on
parallelDecide(s, value, reason, idx) ==
    IF idx < composite.numberOfNecessities /\ ~exists(value)
    THEN Then(useCancel(s, reason),
              LAMBDA s1 :
                Then(callReceiver(s1, Result(Undefined, reason)),
                     clearReceiver))
    ELSE IF parallelFinished(s)
    THEN Then(useCancel(s, makeReason(composite.factoryName,
                                      Str("All necessities are complete"),
                                      Undefined)),
              LAMBDA s1 : Then(parallelSuccess(s1, reason), clearReceiver))
    ELSE s

\* parallel's action callback
parallelAction(s, value, reason, requestorIndexArg) ==
    parallelDecide(parallelRecord(s, value, reason, requestorIndexArg.n),
                   value, reason, requestorIndexArg.n)

\* the reason parallel's timeout callback makes
parallelTimeoutReason ==
    makeReason(composite.factoryName, Str("Time limit reached!"),
               composite.timeLimit)

\* a faulty timeout callback: reaching the time limit is a failure
timeLimitFails(s) ==
    Then(useCancel(s, parallelTimeoutReason),
         LAMBDA s1 :
           Then(callReceiver(s1, Result(Undefined, parallelTimeoutReason)),
                clearReceiver))

\* parallel's timeout callback
parallelTimeout(s) ==
    IF s.timeOption = TimeOption("REQUIRE_NECESSITIES")
    THEN IF s.numberPendingNecessities < 1
         THEN Then(useCancel(
                    [s EXCEPT !.timeOption =
                        TimeOption("SKIP_OPTIONALS_IF_TIME_REMAINS")],
                    parallelTimeoutReason),
                   LAMBDA s1 :
                     callReceiver(s1, Result(Arr(s1.results),
                                             parallelTimeoutReason)))
         ELSE [s EXCEPT !.timeOption =
                    TimeOption("SKIP_OPTIONALS_IF_TIME_REMAINS")]
    ELSE IF s.timeOption = TimeOption("TRY_OPTIONALS_IF_TIME_REMAINS")
    THEN Then(useCancel(s, parallelTimeoutReason),
              LAMBDA s1 :
                Then(IF s1.numberPendingNecessities < 1
                     THEN callReceiver(s1, Result(Arr(s1.results), Undefined))
                     ELSE callReceiver(s1, Result(Undefined,
                                                  parallelTimeoutReason)),
                     clearReceiver))
    ELSE s

\* race's action callback
\* a faulty race action: the winner is reported, the run is not cancelled
raceKeepsRunning(s, value, reason, requestorIndexArg) ==
    IF exists(value)
    THEN Then(callReceiver(s, Result(value, reason)), clearReceiver)
    ELSE IF s.numberPending < 1
    THEN Then(useCancel(s, reason),
              LAMBDA s1 :
                Then(callReceiver(s1, Result(Undefined, reason)),
                     clearReceiver))
    ELSE s

raceDecide(s, value, reason, requestorIndexArg) ==
    IF exists(value)
    THEN Then(useCancel(s, makeReason(composite.factoryName,
                                      Str("Cancelling loser!"),
                                      requestorIndexArg)),
              LAMBDA s1 :
                Then(callReceiver(s1, Result(value, reason)), clearReceiver))
    ELSE IF s.numberPending < 1
    THEN Then(useCancel(s, reason),
              LAMBDA s1 :
                Then(callReceiver(s1, Result(Undefined, reason)),
                     clearReceiver))
    ELSE s

raceAction(s, value, reason, requestorIndexArg) ==
    raceDecide([s EXCEPT !.numberPending = @ - 1,
                         !.actionCalls[requestorIndexArg.n + 1] = @ + 1],
               value, reason, requestorIndexArg)

\* the reason race's timeout callback makes
raceTimeoutReason ==
    makeReason(composite.factoryName, Str("Timeout occured!"),
               composite.timeLimit)

\* race's timeout callback
raceTimeout(s) ==
    Then(useCancel(s, raceTimeoutReason),
         LAMBDA s1 :
           Then(callReceiver(s1, Result(Undefined, raceTimeoutReason)),
                clearReceiver))

\* spec.action and spec.timeout, as the factory of the composite gave them
action(s, value, reason, requestorIndexArg) ==
    IF composite.requestor = "parallelRequestor"
    THEN parallelAction(s, value, reason, requestorIndexArg)
    ELSE raceAction(s, value, reason, requestorIndexArg)

timeout(s) ==
    IF composite.requestor = "parallelRequestor" THEN parallelTimeout(s)
    ELSE raceTimeout(s)

(***************************************************************************)
(* run: the receiver given to a child, cancel, startRequestor.             *)
(***************************************************************************)
\* a faulty guard: it looks at requestorIndex only
gateOnIndexOnly(s, idx) == exists(s.requestorIndex[idx + 1])

\* The guard of the receiver given to child idx:
\* `if (![cancellors, requestorIndex].every(exists)) return;`
gate(s, idx) == s.live /\ exists(s.requestorIndex[idx + 1])

\* a faulty nextMessage: the initial message, whatever the factory
sameMessage(s, value) == s.runSpec.initialMessage

\* the message of the start that follows a completion
nextMessage(s, value) ==
    IF s.runSpec.factoryName = FactoryName.SEQUENCE THEN value
    ELSE s.runSpec.initialMessage

\* the start that follows a completion: one more deferred startRequestor
relaunch(s, value) ==
    IF s.nextNumber < Length
    THEN [s EXCEPT !.queue = Append(@, nextMessage(s, value))]
    ELSE s

\* the run notes that a receiver call with a value passed the guard
observe(s, idx, value) ==
    IF exists(value) THEN Flag(s, <<"success", idx>>) ELSE s

\* The receiver run gives to child idx, called with { value, reason }.
receiverOfChild(s, idx, value, reason) ==
    IF ~gate(s, idx) THEN s
    ELSE Then(action(observe([s EXCEPT !.cancellors[idx + 1] = Undefined],
                             idx, value),
                     value, reason, Num(idx)),
              LAMBDA s1 :
                relaunch([s1 EXCEPT !.requestorIndex[idx + 1] = Undefined],
                         value))

\* A call of the cancellor that child idx returned.
callCancellor(s, idx, kind, reason) ==
    CASE kind = "quiet" ->
            [s EXCEPT !.child[idx + 1].cancels = Append(@, reason)]
      [] kind = "throws" ->
            [s EXCEPT !.child[idx + 1].cancels = Append(@, reason),
                      !.exc = ChildThrown(idx)]
      [] kind = "echo" ->
            IF s.child[idx + 1].state = "running"
            THEN receiverOfChild(
                    [s EXCEPT !.child[idx + 1].cancels = Append(@, reason),
                              !.child[idx + 1].state = "completed"],
                    idx, Undefined, ChildCancelled(idx))
            ELSE [s EXCEPT !.child[idx + 1].cancels = Append(@, reason)]

\* one step of cancellors.forEach: the call is in a try/catch that ignores
\* what the cancellor throws
tryCancellor(s, cancellor, reason) ==
    IF isFunction(cancellor)
    THEN [callCancellor(
            [s EXCEPT !.cancelLog = Append(@, <<cancellor.of, reason>>)],
            cancellor.of, cancellor.kind, reason)
            EXCEPT !.exc = NoExc]
    ELSE s

\* cancellors.forEach(...) from position k on
RECURSIVE forEachCancellor(_, _, _)
forEachCancellor(s, reason, k) ==
    IF k > Len(s.cancellors) THEN s
    ELSE forEachCancellor(tryCancellor(s, s.cancellors[k], reason),
                          reason, k + 1)

\* a faulty cancel: the timer is left pending
keepTimer(s) == s

\* clearTimeout(timerId); timerId = undefined
clearTimer(s) ==
    IF exists(s.timerId)
    THEN [s EXCEPT !.timerArmed = FALSE, !.timerId = Undefined]
    ELSE s

\* run's cancel(reason)
cancel(s, reason) ==
    IF s.live
    THEN [forEachCancellor(clearTimer(s), reason, 1) EXCEPT !.live = FALSE]
    ELSE clearTimer(s)

\* a faulty launch: the list is taken from its end
launchFromTheEnd(s, message) ==
    [s EXCEPT !.nextNumber = @ + 1,
              !.requestorIndex[Length - s.nextNumber] = Num(s.nextNumber),
              !.child[Length - s.nextNumber].state = "running",
              !.child[Length - s.nextNumber].message = message]

\* startRequestor up to the call of the requestor
launch(s, message) ==
    [s EXCEPT !.nextNumber = @ + 1,
              !.requestorIndex[s.nextNumber + 1] = Num(s.nextNumber),
              !.child[s.nextNumber + 1].state = "running",
              !.child[s.nextNumber + 1].message = message]

\* the call requestor(receiver, message) of child idx: it throws, or behaves
\* as b says
callRequestor(s, idx, message, throws, b) ==
    IF throws > 0
    THEN [s EXCEPT !.child[idx + 1].state = "completed",
                   !.exc = ChildThrown(idx)]
    ELSE IF b.sync = "value"
    THEN receiverOfChild([s EXCEPT !.child[idx + 1].state = "completed"],
                         idx, ChildValue(idx, message), Undefined)
    ELSE IF b.sync = "fail"
    THEN receiverOfChild([s EXCEPT !.child[idx + 1].state = "completed"],
                         idx, Undefined, ChildReason(idx))
    ELSE s

\* what follows the call: the cancellor is stored, or the catch block runs
storeOrCatch(s, idx, message, throws, b) ==
    IF ~Threw(s)
    THEN [s EXCEPT !.cancellors[idx + 1] = Cancellor(idx, b.canc)]
    ELSE Then(action(Flag([s EXCEPT !.exc = NoExc], <<"caught", idx>>),
                     Undefined, s.exc, s.requestorIndex[idx + 1]),
              LAMBDA s1 :
                startRequestor(
                    [s1 EXCEPT !.requestorIndex[idx + 1] = Undefined],
                    message, IF throws > 0 THEN throws - 1 ELSE 0, b))

\* a faulty startRequestor: it launches although the run is over
startAnyway(s, message, throws, b) ==
    IF s.nextNumber >= Length THEN s
    ELSE storeOrCatch(
            callRequestor(launch(s, message), s.nextNumber, message, throws, b),
            s.nextNumber, message, throws, b)

\* startRequestor(message).  `throws` children in a row throw when they are
\* launched, starting with the next one; the child after them behaves as b.
startRequestor(s, message, throws, b) ==
    IF ~s.live \/ s.nextNumber >= Length THEN s
    ELSE storeOrCatch(
            callRequestor(launch(s, message), s.nextNumber, message, throws, b),
            s.nextNumber, message, throws, b)

isNumber(v) == v.t = "number"
isSafeInteger(v) == v.t = "number" /\ "fraction" \notin DOMAIN v

\* a faulty amountToParallelize: every requestor is started at once
startAll(throttle, length) == length

\* a faulty amountToParallelize: a throttle of 0 is taken for a cap of 1
zeroIsOne(throttle, length) ==
    IF throttle = 0 THEN Min(1, length) ELSE Min(throttle, length)

\* `throttle || Infinity` against requestors.length
amountToParallelize(throttle, length) ==
    IF throttle = 0 THEN length ELSE Min(throttle, length)

\* run: the declarations, with spec destructured
runDeclare(s, spec) ==
    [s EXCEPT !.runSpec =
                [factoryName |-> spec.factoryName,
                 initialMessage |->
                    IF "initialMessage" \in DOMAIN spec
                    THEN spec.initialMessage ELSE Undefined,
                 throttle |->
                    IF exists(spec.throttle) THEN spec.throttle ELSE Num(0)],
              !.live = TRUE,
              !.cancellors = Holes(spec.requestors),
              !.requestorIndex = Holes(spec.requestors),
              !.nextNumber = 0,
              !.timerId = Undefined]

\* a faulty check: a timeLimit of 0 arms a timer
timerForZero(s, timeLimit) ==
    IF exists(timeLimit)
    THEN IF ~isNumber(timeLimit) \/ timeLimit.n < 0
         THEN [s EXCEPT !.exc = makeReason(s.runSpec.factoryName,
                                           Str("timeLimit"), timeLimit)]
         ELSE [s EXCEPT !.timerId = Num(1), !.timerArmed = TRUE]
    ELSE s

\* run: the check of timeLimit and the timer
runTimeLimit(s, timeLimit) ==
    IF exists(timeLimit)
    THEN IF ~isNumber(timeLimit) \/ timeLimit.n < 0
         THEN [s EXCEPT !.exc = makeReason(s.runSpec.factoryName,
                                           Str("timeLimit"), timeLimit)]
         ELSE IF timeLimit.n > 0
         THEN [s EXCEPT !.timerId = Num(1), !.timerArmed = TRUE]
         ELSE s
    ELSE s

\* run: the check of throttle and the first deferred starts
runThrottle(s, length) ==
    IF ~isSafeInteger(s.runSpec.throttle) \/ s.runSpec.throttle.n < 0
    THEN [s EXCEPT !.exc = makeReason(s.runSpec.factoryName, Str("Throttle"),
                                      s.runSpec.throttle)]
    ELSE [s EXCEPT !.queue =
            [k \in 1..amountToParallelize(s.runSpec.throttle.n, length)
                |-> s.runSpec.initialMessage]]

\* run(spec) up to its return; an exception means run threw
run(s, spec) ==
    Then(runTimeLimit(runDeclare(s, spec), spec.timeLimit),
         LAMBDA s1 : runThrottle(s1, spec.requestors))

\* `const cancel = run(...)`
bindCancel(s) == [s EXCEPT !.cancelBound = TRUE]

\* a faulty parallelRequestor: the empty list is given to run like any other
alwaysRun(s, initialMessage) ==
    Then(run([s EXCEPT !.numberPending = composite.requestors,
                       !.numberPendingNecessities =
                            composite.numberOfNecessities,
                       !.results = <<>>],
             [factoryName |-> composite.factoryName,
              requestors |-> composite.requestors,
              initialMessage |-> initialMessage,
              timeLimit |-> composite.timeLimit,
              throttle |-> composite.throttle]),
         bindCancel)

\* parallelRequestor(receiver, initialMessage)
parallelRequestor(s, initialMessage) ==
    IF composite.requestors = 0
    THEN callReceiver(
            [s EXCEPT !.numberPending = 0, !.numberPendingNecessities = 0,
                      !.results = <<>>],
            IF composite.factoryName = FactoryName.SEQUENCE
            THEN Result(initialMessage, Undefined)
            ELSE Result(Arr(<<>>), Undefined))
    ELSE Then(run([s EXCEPT !.numberPending = composite.requestors,
                            !.numberPendingNecessities =
                                composite.numberOfNecessities,
                            !.results = <<>>],
                  [factoryName |-> composite.factoryName,
                   requestors |-> composite.requestors,
                   initialMessage |-> initialMessage,
                   timeLimit |-> composite.timeLimit,
                   throttle |-> composite.throttle]),
              bindCancel)

\* raceRequestor(callback, initialValue)
raceRequestor(s, initialValue) ==
    Then(run([s EXCEPT !.numberPending = composite.requestors],
             [factoryName |-> composite.factoryName,
              requestors |-> composite.requestors,
              initialValue |-> initialValue,
              timeLimit |-> composite.timeLimit,
              throttle |-> composite.throttle]),
         bindCancel)

(***************************************************************************)
(* The composites and the runs.                                            *)
(***************************************************************************)
Lengths == 0..MaxRequestors
List(n) == IF n = 0 THEN Undefined ELSE Requestors(n)

\* the time limits and throttles a caller configures
TimeLimits == {Undefined, Num(50)}
Throttles == {Undefined} \cup {Num(k) : k \in 1..(MaxRequestors - 1)}
\* the number 1.5
OneAndAHalf == [t |-> "number", n |-> 1, fraction |-> 5]
\* ill-typed and zero configurations, as (timeLimit, throttle)
OtherConfigurations ==
    {<<Num(0), Num(0)>>, <<Num(-1), Undefined>>, <<Num(50), Num(-1)>>,
     <<Undefined, Num(-1)>>, <<Str("50"), Undefined>>,
     <<Undefined, OneAndAHalf>>}
Configurations == (TimeLimits \X Throttles) \cup OtherConfigurations

GivenTimeOptions ==
    {Undefined} \cup {TimeOption(key) : key \in TimeOptionKeys}

ParallelComposites ==
    { parallel(Requestors(n),
               [optionals |-> List(m), timeLimit |-> c[1], throttle |-> c[2],
                timeOption |-> o, factoryName |-> Undefined]) :
        <<n, m, c, o>> \in
            { x \in Lengths \X Lengths \X Configurations \X GivenTimeOptions :
                /\ x[1] + x[2] <= MaxRequestors
                /\ (x[1] = 0 \/ x[2] = 0) => x[4] = Undefined } }

SequenceComposites ==
    { sequence(Requestors(n), [timeLimit |-> l]) :
        <<n, l>> \in Lengths \X (TimeLimits \cup {Num(0), Num(-1)}) }

RaceComposites ==
    { race(Requestors(n),
           [timeLimit |-> c[1], throttle |-> c[2], factoryName |-> Undefined]) :
        <<n, c>> \in (Lengths \ {0}) \X Configurations }

FallbackComposites ==
    { fallback(Requestors(n), [timeLimit |-> l]) :
        <<n, l>> \in (Lengths \ {0}) \X (TimeLimits \cup {Num(0), Num(-1)}) }

Composites ==
    ParallelComposites \cup SequenceComposites \cup RaceComposites
        \cup FallbackComposites

InitialMessages == {Num(1)}

IdleChild == [state |-> "idle", message |-> Undefined, cancels |-> <<>>]

\* A composite has been built and not yet invoked.
InitWith(cs) ==
    /\ composite \in cs
    /\ givenMessage \in InitialMessages
    /\ pc = "built"
    /\ runSpec = Undefined
    /\ live = FALSE
    /\ cancellors = <<>>
    /\ nextNumber = 0
    /\ timerId = Undefined
    /\ requestorIndex = <<>>
    /\ queue = <<>>
    /\ timerArmed = FALSE
    /\ numberPending = 0
    /\ numberPendingNecessities = 0
    /\ results = <<>>
    /\ timeOption = composite.timeOption
    /\ receiver = TRUE
    /\ cancelBound = FALSE
    /\ delivered = <<>>
    /\ child = [i \in 1..composite.requestors |-> IdleChild]
    /\ actionCalls = [i \in 1..composite.requestors |-> 0]
    /\ flags = {}
    /\ cancelLog = <<>>
    /\ thrown = NoExc

Init == InitWith(Composites)

\* The caller invokes the composite with its receiver and a message.
Invoke ==
    /\ pc = "built"
    /\ LET s == IF composite.requestor = "parallelRequestor"
                THEN parallelRequestor(State, givenMessage)
                ELSE raceRequestor(State, givenMessage)
       IN  /\ pc' = IF Threw(s) THEN "threw"
                    ELSE IF s.cancelBound THEN "running" ELSE "returned"
           /\ thrown' = s.exc
           /\ Commit([s EXCEPT !.exc = NoExc])
    /\ UNCHANGED <<composite, givenMessage>>

\* what the children launched by one startRequestor task may do
LaunchChoices(s) ==
    IF s.live /\ s.nextNumber < Length
    THEN UNION { { <<throws, b>> :
                    b \in LaunchBehaviours(s.nextNumber + throws) } :
                 throws \in 0..(Length - s.nextNumber - 1) }
            \cup {<<Length - s.nextNumber, [sync |-> "none", canc |-> "none"]>>}
    ELSE {<<0, [sync |-> "none", canc |-> "none"]>>}

\* The host runs the oldest deferred startRequestor task.
StartTask ==
    /\ queue # <<>>
    /\ LET s == [State EXCEPT !.queue = Tail(@)]
       IN  \E c \in LaunchChoices(s) :
               Commit(startRequestor(s, Head(queue), c[1], c[2]))
    /\ UNCHANGED <<composite, givenMessage, pc, thrown>>

\* A child that has been launched calls its receiver, with a value or with
\* a reason: for the first time, or again ("repeat"), or when the run is
\* over ("late").
ChildCalls ==
    /\ \E i \in 1..Length, ok \in BOOLEAN :
        /\ child[i].state # "idle"
        /\ LET s == IF ~live THEN Flag(State, <<"late">>)
                    ELSE IF child[i].state = "completed"
                    THEN Flag(State, <<"repeat">>)
                    ELSE [State EXCEPT !.child[i].state = "completed"]
           IN  Commit(receiverOfChild(s, i - 1,
                    IF ok THEN ChildValue(i - 1, child[i].message)
                    ELSE Undefined,
                    IF ok THEN Undefined ELSE ChildReason(i - 1)))
    /\ UNCHANGED <<composite, givenMessage, pc, thrown>>

\* The time limit elapses: the host calls spec.timeout.
Timeout ==
    /\ timerArmed
    /\ Commit(timeout(Flag([State EXCEPT !.timerArmed = FALSE],
                           <<"timeout">>)))
    /\ UNCHANGED <<composite, givenMessage, pc, thrown>>

\* run's DEFAULT_CANCEL_REASON
DEFAULT_CANCEL_REASON ==
    makeReason(composite.factoryName, Str("Cancel!"), Undefined)
\* what a caller passes to the cancellor: nothing, or a reason of its own
CallerReasons == {Undefined, Str("stop")}
\* `reason = DEFAULT_CANCEL_REASON` in cancel's parameter list
reasonOrDefault(reason) ==
    IF reason = Undefined THEN DEFAULT_CANCEL_REASON ELSE reason

\* The caller calls the cancellor that the composite returned, with a
\* reason or without one.
CallerCancel ==
    /\ pc = "running"
    /\ \E reason \in CallerReasons :
            Commit(cancel(Flag(State, <<"callerCancel">>),
                          reasonOrDefault(reason)))
    /\ UNCHANGED <<composite, givenMessage, pc, thrown>>

Next ==
    \/ Invoke
    \/ StartTask
    \/ ChildCalls
    \/ Timeout
    \/ CallerCancel

Spec == Init /\ [][Next]_vars

\* one family of composites at a time
SpecParallel == InitWith(ParallelComposites) /\ [][Next]_vars
SpecSequence == InitWith(SequenceComposites) /\ [][Next]_vars
SpecRace == InitWith(RaceComposites \cup FallbackComposites) /\ [][Next]_vars

(***************************************************************************)
(* The factory call.  Here a list of requestors is the list of its         *)
(* elements' shapes: what the factory's checks look at.                    *)
(***************************************************************************)
\* a function of the given arity, and values that are not callable: a
\* string (it has a length) and a number (it has none)
Function(arity) == [t |-> "function", length |-> arity]
ElementShapes ==
    {Function(k) : k \in 0..3} \cup {[t |-> "string", length |-> 1], Num(5)}
Lists(n) == UNION {[1..k -> ElementShapes] : k \in 0..n}

\* value.length, undefined for a value that has no such property
lengthOf(value) ==
    IF "length" \in DOMAIN value THEN Num(value.length) ELSE Undefined
\* a < b and a > b of JavaScript for a number or undefined on the left:
\* undefined compares false
lessThan(a, b) == a.t = "number" /\ a.n < b
greaterThan(a, b) == a.t = "number" /\ a.n > b

\* checkRequestors: the exception it throws, NoExc if it returns
checkRequestors(requestors, factoryName) ==
    IF \E i \in 1..Len(requestors) :
            \/ isFunction(requestors[i])
            \/ lessThan(lengthOf(requestors[i]), 1)
            \/ greaterThan(lengthOf(requestors[i]), 2)
    THEN makeReason(Undefined,
                    Str("Requestors must be functions of 1 or 2 arguments!"),
                    Arr(requestors))
    ELSE NoExc

\* Object.keys(TimeOption)
allTimeOptions == {Str(key) : key \in TimeOptionKeys}
\* the identifiers parallel.js can refer to: its imports
ParallelScope ==
    {"exists", "getArrayLength", "checkRequestors", "checkReceiver",
     "makeReason", "__factoryName__", "FactoryName", "TimeOption", "run"}

\* parallel's check of timeOption when it has necessities and optionals:
\* the exception thrown, NoExc if none.  Reading an identifier that is not
\* in scope throws a ReferenceError.
checkTimeOption(option, factoryName) ==
    IF "allTimeOption" \notin ParallelScope THEN ReferenceError
    ELSE IF option \in allTimeOptions THEN NoExc
    ELSE makeReason(factoryName, Str("timeOption must be one of"), option)

\* what the call parallel(necesseties, { optionals, timeOption }) throws
parallelThrows(necesseties, optionals, option) ==
    LET given == IF exists(option) THEN option
                 ELSE TimeOption("SKIP_OPTIONALS_IF_TIME_REMAINS")
        checked ==
            IF Len(necesseties) > 0 /\ Len(optionals) > 0
            THEN checkTimeOption(given, FactoryName.PARALLEL)
            ELSE NoExc
    IN  IF checked # NoExc THEN checked
        ELSE checkRequestors(necesseties \o optionals, FactoryName.PARALLEL)

\* the values a caller gives as timeOption: none, the three of TimeOption,
\* the name of a key, and values that are no option at all
CallTimeOptions ==
    GivenTimeOptions
        \cup {Str("SKIP_OPTIONALS_IF_TIME_REMAINS"), Str("bogus"), Num(7)}

\* the calls of parallel
ParallelCalls ==
    [factory : {"parallel"}, necesseties : Lists(MaxRequestors),
     optionals : Lists(1), timeOption : CallTimeOptions]

\* A factory is about to be called.
InitCall ==
    /\ composite \in ParallelCalls
    /\ givenMessage = Undefined
    /\ pc = "factory"
    /\ runSpec = Undefined
    /\ live = FALSE
    /\ cancellors = <<>>
    /\ nextNumber = 0
    /\ timerId = Undefined
    /\ requestorIndex = <<>>
    /\ queue = <<>>
    /\ timerArmed = FALSE
    /\ numberPending = 0
    /\ numberPendingNecessities = 0
    /\ results = <<>>
    /\ timeOption = Undefined
    /\ receiver = FALSE
    /\ cancelBound = FALSE
    /\ delivered = <<>>
    /\ child = <<>>
    /\ actionCalls = <<>>
    /\ flags = {}
    /\ cancelLog = <<>>
    /\ thrown = NoExc

\* The factory runs: it throws, or it returns the composite.
Construct ==
    /\ pc = "factory"
    /\ thrown' = parallelThrows(composite.necesseties, composite.optionals,
                                composite.timeOption)
    /\ pc' = IF thrown' = NoExc THEN "built" ELSE "threw"
    /\ composite' =
        IF thrown' = NoExc
        THEN parallel(Requestors(Len(composite.necesseties)),
                      [optionals |-> List(Len(composite.optionals)),
                       timeLimit |-> Undefined, throttle |-> Undefined,
                       timeOption |-> composite.timeOption,
                       factoryName |-> Undefined])
        ELSE composite
    /\ timeOption' = IF thrown' = NoExc THEN composite'.timeOption ELSE timeOption
    /\ UNCHANGED <<givenMessage, runSpec, live, cancellors, nextNumber, timerId,
                   requestorIndex, queue, timerArmed, numberPending,
                   numberPendingNecessities, results, receiver, cancelBound,
                   delivered, child, actionCalls, flags, cancelLog>>

SpecConstruct == InitCall /\ [][Construct]_vars

(***************************************************************************)
(* Properties.                                                             *)
(***************************************************************************)
\* the indices (1-based) of the children that have been launched and whose
\* completion has not been observed
InFlight == { i \in 1..Length : child[i].state = "running" }
\* the composite's receiver has been invoked
Received == delivered # <<>>
\* the run has been started and is over: `cancellors` is undefined
Over == pc = "running" /\ ~live

\* C1: whatever the children, the timer and the caller do (children that
\* call their receiver twice, cancellors that call the child's receiver
\* included), the composite's receiver is invoked at most once.
C1_ReceiverAtMostOnce == Len(delivered) <= 1

\* the receiver has been invoked once in a run in which a child called its
\* receiver a second time
C1_Witness == Len(delivered) = 1 /\ <<"repeat">> \in flags

\* C2 as stated: once the run of a non-empty composite is over (its children
\* completed, its time limit elapsed, or the caller cancelled it), the
\* receiver has been invoked.  A run that is over invokes nothing any more,
\* so "eventually invoked" is "invoked when over".
C2_ReceiverWhenOver == Over => Received

\* C3: with throttle k > 0, at most k children are in flight.
C3_Throttle ==
    (exists(composite.throttle) /\ composite.throttle.n > 0)
        => Cardinality(InFlight) <= composite.throttle.n

\* a throttled composite holds back its second child until the first has
\* completed: the second child is in flight, the first is done
C3_Witness ==
    /\ composite.throttle = Num(1)
    /\ Length >= 2
    /\ child[1].state = "completed"
    /\ child[2].state = "running"

\* the value of the left fold of the first n children over the message the
\* composite was invoked with
RECURSIVE Fold(_)
Fold(n) == IF n = 0 THEN givenMessage ELSE ChildValue(n - 1, Fold(n - 1))

\* the step is the time-limit callback
TimeoutStep == <<"timeout">> \notin flags /\ <<"timeout">> \in flags'
\* every child in flight whose cancellor the engine holds has its cancellor
\* called in the step
CancelsInFlight ==
    \A i \in InFlight :
        isFunction(cancellors[i]) => Len(child'[i].cancels) > Len(child[i].cancels)
\* the engine has recorded a completion of child i (1-based) without a value
Failed(i) ==
    /\ i <= Len(results)
    /\ results[i] # Undefined
    /\ ~exists(results[i].value)

\* C4: in a sequence, every launched child i was given the left fold of the
\* children before it (the first one the initial message), and a sequence
\* that ends without the caller's cancel has called the receiver; a success
\* carries the left fold of all children (the last child's value), not an
\* array.
C4_SequenceThreads ==
    /\ \A i \in 1..Length :
            child[i].state # "idle" => child[i].message = Fold(i - 1)
    /\ (Over /\ <<"callerCancel">> \notin flags) => Received
    /\ (Received /\ exists(delivered[1].value))
            => delivered = <<Result(Fold(Length), Undefined)>>

\* a sequence of two children has succeeded
C4_Witness ==
    /\ composite.factoryName = FactoryName.SEQUENCE
    /\ Length = 2
    /\ delivered = <<Result(Fold(2), Undefined)>>
    /\ child[2].message = ChildValue(0, givenMessage)

\* C5 as stated: in parallel, race and fallback every launched child was
\* given the message the composite was invoked with.
C5_SameMessageToAll ==
    composite.factoryName # FactoryName.SEQUENCE
        => \A i \in 1..Length :
                child[i].state # "idle" => child[i].message = givenMessage

\* C6: in a sequence, once a child has completed without a value (it failed
\* or it threw when launched), the receiver has been called with exactly
\* that child's reason and no later child has been launched.
C6_SequenceFailsFast ==
    \A i \in 1..Length :
        Failed(i) =>
            /\ delivered = <<Result(Undefined, results[i].reason)>>
            /\ \A j \in (i + 1)..Length : child[j].state = "idle"

\* the first child of a sequence of two threw when it was launched
C6_Witness ==
    /\ composite.factoryName = FactoryName.SEQUENCE
    /\ Length = 2
    /\ Failed(1)
    /\ results[1].reason = ChildThrown(0)
    /\ Received

\* C7 as stated: a sequence with a positive timeLimit whose time limit has
\* been reached (the timer is disarmed when the last child completes) has
\* called its receiver with a failure.
C7_SequenceTimesOut ==
    (composite.factoryName = FactoryName.SEQUENCE /\ <<"timeout">> \in flags)
        => (Received /\ ~exists(delivered[1].value))

\* parallel was asked to skip optionals: the option given (or defaulted)
\* with necessities and optionals, or necessities only
SkipOptionals ==
    /\ composite.factoryName = FactoryName.PARALLEL
    /\ \/ composite.timeOption = TimeOption("SKIP_OPTIONALS_IF_TIME_REMAINS")
       \/ composite.numberOfNecessities = Length /\ Length > 0

\* C8 as stated: a parallel that skips optionals, whose time limit has
\* elapsed with a necessity still pending, has called its receiver with a
\* failure and is over (its children cancelled).
C8_SkipTimesOut ==
    (SkipOptionals /\ pc = "running" /\ <<"timeout">> \in flags
        /\ numberPendingNecessities >= 1)
        => (Received /\ ~exists(delivered[1].value) /\ ~live)

RequireNecessities ==
    composite.timeOption = TimeOption("REQUIRE_NECESSITIES") /\ pc = "running"

ParallelRun ==
    /\ composite.requestor = "parallelRequestor"
    /\ composite.factoryName = FactoryName.PARALLEL
    /\ pc = "running"
\* in this step the engine records that necessity i (1-based) failed
NecessityFails(i) ==
    /\ i <= composite.numberOfNecessities
    /\ ~Failed(i)
    /\ Failed(i)'

\* C11 as stated: in a parallel, the step in which a necessity is recorded
\* as failed ends the run, gives that child's reason to the cancellor of
\* every other child in flight and to the composite's receiver (a failure,
\* the only call), and no child is launched afterwards.
C11_NecessityFails ==
    /\ [][\A i \in 1..Length :
            (ParallelRun /\ NecessityFails(i)) =>
                /\ ~live'
                /\ delivered' = <<Result(Undefined, results'[i].reason)>>
                /\ \A j \in InFlight \ {i} :
                        isFunction(cancellors[j]) =>
                            child'[j].cancels =
                                Append(child[j].cancels, results'[i].reason)]_vars
    /\ [][(ParallelRun /\ \E i \in 1..composite.numberOfNecessities : Failed(i))
            => nextNumber' = nextNumber]_vars

\* neither the time limit nor the caller has interfered with the run
Undisturbed == <<"timeout">> \notin flags /\ <<"callerCancel">> \notin flags
\* every child has completed, or every necessity has and optionals are to
\* be skipped
AllDone ==
    \/ numberPending < 1
    \/ /\ composite.timeOption = TimeOption("SKIP_OPTIONALS_IF_TIME_REMAINS")
       /\ numberPendingNecessities < 1

\* C12: in an undisturbed parallel in which no necessity has failed, the
\* receiver has been called exactly when every child has completed, or every
\* necessity has and the option is to skip optionals; the call is a success
\* with the results (failed optionals included), the run is over and the
\* optionals in flight have had their cancellors called.
C12_ParallelSucceeds ==
    (ParallelRun /\ Undisturbed
        /\ \A i \in 1..composite.numberOfNecessities : ~Failed(i))
        => /\ Received <=> AllDone
           /\ Received =>
                /\ Len(delivered) = 1
                /\ delivered[1].value = Arr(results)
                /\ ~live
                /\ \A i \in InFlight :
                        isFunction(cancellors[i]) => child[i].cancels # <<>>

\* the necessity is done, optionals are skipped: success with the optional
\* in flight cancelled
C12_Witness ==
    /\ ParallelRun /\ Undisturbed
    /\ composite.timeOption = TimeOption("SKIP_OPTIONALS_IF_TIME_REMAINS")
    /\ Length = 2
    /\ delivered = <<Result(Arr(results), Undefined)>>
    /\ Len(results) = 1
    /\ child[2].state = "running"
    /\ child[2].cancels # <<>>

\* the { value, reason } objects child i (1-based) can call its receiver with
ResultsOf(i) ==
    {Result(ChildValue(i - 1, child[i].message), Undefined)}
        \cup {Result(Undefined, r) :
                r \in {ChildReason(i - 1), ChildThrown(i - 1),
                       ChildCancelled(i - 1)}}
\* the composite's receiver has been called with a value
Succeeded == Received /\ exists(delivered[1].value)

\* C13: in the list a parallel succeeds with, every entry that is not a hole
\* is at the index of the child that delivered it, and every child whose
\* completion the engine accepted has its entry.
C13_IndexPreserved ==
    (ParallelRun /\ Succeeded) =>
        LET list == delivered[1].value.a
        IN  /\ \A i \in 1..Len(list) :
                    list[i] # Undefined => (i <= Length /\ list[i] \in ResultsOf(i))
            /\ \A i \in 1..Length :
                    actionCalls[i] > 0 => (i <= Len(list) /\ list[i] # Undefined)

\* the second child completed, the first did not: the list of the success
\* (at the time limit) has a hole at the first index and the second child's
\* result at the second
C13_Witness ==
    /\ ParallelRun /\ Succeeded
    /\ Length = 2
    /\ delivered[1].value.a =
            <<Undefined, Result(ChildValue(1, givenMessage), Undefined)>>

\* C14 as stated: the list a parallel succeeds with has one entry per
\* requestor, necessities and optionals.
C14_ResultLength ==
    (ParallelRun /\ Succeeded) => Len(delivered[1].value.a) = Length

\* C15: a parallel or a sequence over an empty list has, once invoked,
\* called its receiver inside the invocation: a parallel with an empty list,
\* a sequence with the message it was invoked with; nothing is launched or
\* left pending.
C15_EmptyList ==
    (Length = 0 /\ pc # "built") =>
        /\ pc = "returned"
        /\ delivered =
            <<Result(IF composite.factoryName = FactoryName.SEQUENCE
                     THEN givenMessage ELSE Arr(<<>>),
                     Undefined)>>
        /\ nextNumber = 0
        /\ queue = <<>>
        /\ ~timerArmed

\* a sequence over an empty list has delivered its message
C15_Witness ==
    /\ Length = 0
    /\ composite.factoryName = FactoryName.SEQUENCE
    /\ pc = "returned"
    /\ delivered = <<Result(givenMessage, Undefined)>>

\* the step is a call of parallel with necessities and optionals
MixedCall ==
    /\ pc = "factory" /\ pc' # "factory"
    /\ composite.factory = "parallel"
    /\ Len(composite.necesseties) > 0
    /\ Len(composite.optionals) > 0

\* C16 as stated: a call of parallel with necessities and optionals is not
\* stopped by the check of timeOption when the option is absent or one of
\* the three values of TimeOption (it returns, or the check of the
\* requestors throws), and throws a reason whose evidence is the option
\* otherwise.
C16_TimeOptionChecked ==
    [][MixedCall =>
        IF composite.timeOption \in GivenTimeOptions
        THEN thrown' \in
                {NoExc,
                 makeReason(Undefined, Undefined,
                            Arr(composite.necesseties \o composite.optionals))}
        ELSE thrown' = makeReason(FactoryName.PARALLEL, Undefined,
                                  composite.timeOption)]_vars

\* the composite is a race or a fallback that is running
RaceRun == composite.requestor = "raceRequestor" /\ pc = "running"
\* the reason race gives to the losers when child idx (0-based) has won
LoserReason(idx) ==
    makeReason(composite.factoryName, Str("Cancelling loser!"), Num(idx))
\* the indices (0-based) of the children whose success the engine accepted
Winners == { idx \in 0..(Length - 1) : <<"success", idx>> \in flags }

\* C17 as stated: in a race, once the engine has accepted a child's success
\* the receiver has been called exactly once, with that child's value and
\* reason; every other child still in flight whose cancellor the engine
\* holds has been given the loser reason; and no loser reason ever reaches
\* the receiver.
C17_FirstSuccessWins ==
    RaceRun =>
        /\ \A idx \in Winners :
            /\ delivered =
                <<Result(ChildValue(idx, child[idx + 1].message), Undefined)>>
            /\ \A j \in InFlight \ {idx + 1} :
                    isFunction(cancellors[j]) =>
                        child[j].cancels = <<LoserReason(idx)>>
        /\ \A k \in 1..Len(delivered), idx \in 0..(Length - 1) :
                delivered[k].reason # LoserReason(idx)

\* the children (1-based) that have not been launched
NotLaunched == { i \in 1..Length : child[i].state = "idle" }

\* C18: in a race, once the engine has accepted a child's success, no step
\* launches a child that had not been launched; with a throttle below the
\* number of requestors the children beyond the launched ones stay idle.
C18_NoLaunchAfterSuccess ==
    [][(RaceRun /\ Winners # {}) =>
            \A i \in NotLaunched : child'[i].state = "idle"]_vars

\* a race with a throttle is over after a success, the deferred start that
\* followed the success has run, and a child was never launched
C18_Witness ==
    /\ RaceRun
    /\ Winners # {}
    /\ composite.throttle # Undefined
    /\ composite.throttle.n < Length
    /\ queue = <<>>
    /\ NotLaunched # {}

\* the children (1-based) whose completion race's action is given in the step
ObservedInStep == { i \in 1..Length : actionCalls'[i] > actionCalls[i] }
\* the last of them: children are launched in the order of the list
LastObserved == CHOOSE i \in ObservedInStep : \A j \in ObservedInStep : j <= i
\* the reasons child idx (0-based) fails with: the one it passes to its
\* receiver, or what it throws when it is launched
FailureReasons(idx) == {ChildReason(idx), ChildThrown(idx)}
\* the receiver has been called with a failure
FailedRun == Received /\ ~exists(delivered[1].value)

\* C19 as stated: in a race with neither timeout nor caller's cancel, the
\* receiver has been called with a failure only if the action has been given
\* every child's completion and none had a value; and the step that makes
\* the call gives it the reason of the last completion observed in that step.
C19_RaceFailsWhenAllFailed ==
    /\ [](RaceRun /\ Undisturbed /\ FailedRun =>
            /\ Winners = {}
            /\ \A i \in 1..Length :
                    child[i].state = "completed" /\ actionCalls[i] >= 1)
    /\ [][(RaceRun /\ Undisturbed /\ Undisturbed' /\ ~Received /\ FailedRun') =>
            /\ ObservedInStep # {}
            /\ delivered'[1].reason \in FailureReasons(LastObserved - 1)]_vars

\* C20 as stated: in a race or a fallback with a positive timeLimit, the
\* time-limit callback that runs before the receiver was called cancels
\* every child in flight whose cancellor the engine holds, ends the run and
\* calls the receiver once, with a failure whose reason has the time limit
\* as evidence; after the time limit the receiver is not called again.
C20_RaceTimesOut ==
    /\ [][(RaceRun /\ live /\ ~Received /\ TimeoutStep) =>
            /\ ~live'
            /\ CancelsInFlight
            /\ delivered' = <<Result(Undefined, raceTimeoutReason)>>]_vars
    /\ [][(RaceRun /\ <<"timeout">> \in flags) => delivered' = delivered]_vars

\* what requestor f (child 0) delivers to its receiver when it is invoked
\* directly with message m: its value for m, or its reason
DirectOutcomes(m) ==
    {Result(ChildValue(0, m), Undefined), Result(Undefined, ChildReason(0))}

\* C21 as stated: race([f]) and fallback([f]) invoked with m call f with m,
\* and what their receiver is given (absent timeout and caller's cancel, f
\* having called its receiver) is what f invoked with m gives its receiver.
C21_RaceOfOneIsChild ==
    (RaceRun /\ Length = 1 /\ child[1].state # "idle") =>
        /\ child[1].message = givenMessage
        /\ (Undisturbed /\ Received /\ actionCalls[1] = 1
                /\ delivered[1].reason # ChildThrown(0)) =>
                delivered[1] \in DirectOutcomes(givenMessage)

\* the composite is a fallback that is running
FallbackRun == RaceRun /\ composite.factoryName = FactoryName.FALLBACK

\* C22: in a fallback, a child is launched only when the child before it
\* has completed without a value (so the launched children are a prefix of
\* the list and at most one is in flight); once a child's success has been
\* accepted the receiver has that child's value and every later child is
\* idle, now and after every step; and, absent timeout and caller's cancel,
\* the receiver was given a failure only if every child completed without a
\* value.
C22_FallbackInOrder ==
    /\ [](FallbackRun =>
            /\ \A i \in 2..Length :
                    child[i].state # "idle" =>
                        /\ child[i - 1].state = "completed"
                        /\ actionCalls[i - 1] >= 1
                        /\ (i - 2) \notin Winners
            /\ Cardinality(InFlight) <= 1
            /\ \A idx \in Winners :
                    /\ delivered =
                        <<Result(ChildValue(idx, child[idx + 1].message),
                                 Undefined)>>
                    /\ \A j \in (idx + 2)..Length : child[j].state = "idle"
            /\ (Undisturbed /\ FailedRun) =>
                    /\ Winners = {}
                    /\ \A i \in 1..Length : child[i].state = "completed")
    /\ [][(FallbackRun /\ Winners # {}) =>
            \A i \in NotLaunched : child'[i].state = "idle"]_vars

\* a fallback of two: the first child failed, the second was then launched
\* and succeeded, and the receiver has the second child's value
C22_Witness ==
    /\ FallbackRun
    /\ Length = 2
    /\ actionCalls = <<1, 1>>
    /\ Winners = {1}
    /\ Succeeded

\* the caller's first call of the returned cancellor happens in the step
CancelStep == <<"callerCancel">> \notin flags /\ <<"callerCancel">> \in flags'
\* the cancellor calls of the step
CalledInStep == SubSeq(cancelLog', Len(cancelLog) + 1, Len(cancelLog'))
\* the children (1-based) that were launched, returned a cancellor and have
\* not completed
Armed == { i \in InFlight : isFunction(cancellors[i]) }
\* the indices (0-based) of the calls in log that were given reason, in order
CalledWith(log, reason) ==
    LET with == SelectSeq(log, LAMBDA e : e[2] = reason)
    IN  [k \in 1..Len(with) |-> with[k][1]]
\* seq is strictly increasing
Increasing(seq) == \A p, q \in 1..Len(seq) : p < q => seq[p] < seq[q]

\* C23: the caller's call of the cancellor of a live run gives its reason
\* (the default one if none is supplied) to the cancellor of every child
\* that was launched, returned a cancellor and has not completed, once each
\* and in list order, whether or not one of these cancellors throws; after
\* the call the engine holds no cancellor array and no timer.
C23_CancelReachesAll ==
    [][(pc = "running" /\ live /\ CancelStep) =>
            \E reason \in CallerReasons :
                LET called == CalledWith(CalledInStep, reasonOrDefault(reason))
                IN  /\ Increasing(called)
                    /\ Armed \subseteq { called[k] + 1 : k \in 1..Len(called) }
                    /\ ~live'
                    /\ ~timerArmed'
                    /\ timerId' = Undefined]_vars

\* C24 as stated: the caller's first call of the cancellor of a live run
\* calls the cancellor of every child that is launched, holds a cancellor and has not
\* completed exactly once; a later call of the cancellor changes nothing;
\* and a call of the cancellor of a composite that has succeeded does not
\* call the receiver.
C24_CancelIdempotent ==
    /\ [][(pc = "running" /\ live /\ CancelStep) =>
            \A i \in Armed :
                Len(child'[i].cancels) = Len(child[i].cancels) + 1]_vars
    /\ [][(CallerCancel /\ <<"callerCancel">> \in flags) => UNCHANGED vars]_vars
    /\ [][(CallerCancel /\ Succeeded) => delivered' = delivered]_vars

\* the engine's cancellor has been called: the array of cancellors is gone
Cancelled == pc = "running" /\ ~live

\* C25: once the engine's cancellor has been called, no step (a child's
\* receiver call, a deferred start that was queued, a further cancel)
\* calls the action, changes a counter or a result, calls the composite's
\* receiver, launches a child or arms a timer; only the queue of deferred
\* starts is consumed.
C25_NothingAfterCancel ==
    [][Cancelled =>
        /\ UNCHANGED <<actionCalls, numberPending, numberPendingNecessities,
                       results, delivered, receiver, nextNumber, child,
                       cancellors, requestorIndex, cancelLog, live, timerArmed,
                       timerId>>
        /\ Len(queue') <= Len(queue)]_vars

\* the caller cancelled with one child running and the start of the other
\* queued; the queued start has run and the first child has called its
\* receiver since: nothing was launched, recorded or delivered
C25_Witness ==
    /\ Cancelled
    /\ {<<"callerCancel">>, <<"late">>} \subseteq flags
    /\ Length = 2
    /\ queue = <<>>
    /\ child[1].state = "running"
    /\ child[2].state = "idle"
    /\ delivered = <<>>

\* C26: a timer is armed only by the invocation (so at most one per
\* invocation); while it is pending the time-limit callback has not run and
\* the engine's cancellor has not been called; hence the callback runs at
\* most once, and never in a state where the cancellor has been called.
C26_OneTimer ==
    /\ [](timerArmed =>
            /\ <<"timeout">> \notin flags
            /\ <<"callerCancel">> \notin flags
            /\ ~Cancelled)
    /\ [][(~timerArmed /\ timerArmed') => pc = "built"]_vars
    /\ [][TimeoutStep =>
            (timerArmed /\ ~Cancelled /\ <<"callerCancel">> \notin flags)]_vars

\* a composite with a time limit was invoked and its cancellor called before
\* the limit elapsed: the timer is gone
C26_Witness ==
    /\ Cancelled
    /\ composite.timeLimit = Num(50)
    /\ <<"callerCancel">> \in flags
    /\ <<"timeout">> \notin flags
    /\ ~timerArmed
    /\ timerId = Undefined

\* the composite has been invoked and its list is not empty: run was called
RunCalled == pc # "built" /\ pc # "factory" /\ Length > 0
\* a timeLimit that is negative or not a number
BadTimeLimit ==
    /\ exists(composite.timeLimit)
    /\ composite.timeLimit.t = "number" => composite.timeLimit.n < 0

\* C27: after run was called with timeLimit 0 or absent, no timer is ever
\* pending and the time-limit callback never runs; after run was called
\* with a negative or non-numeric timeLimit, run has thrown a reason with
\* that timeLimit as evidence, and nothing was armed, queued, launched or
\* delivered.
C27_TimeLimitChecked ==
    /\ (RunCalled /\ composite.timeLimit \in {Undefined, Num(0)}) =>
            /\ ~timerArmed
            /\ timerId = Undefined
            /\ <<"timeout">> \notin flags
    /\ (RunCalled /\ BadTimeLimit) =>
            /\ pc = "threw"
            /\ thrown = makeReason(composite.factoryName, Str("timeLimit"),
                                   composite.timeLimit)
            /\ ~timerArmed
            /\ queue = <<>>
            /\ NotLaunched = 1..Length
            /\ delivered = <<>>

\* a composite with timeLimit 0 has run to its end: its receiver was called
\* and there was never a timer
C27_Witness ==
    /\ RunCalled
    /\ composite.timeLimit = Num(0)
    /\ Received
    /\ ~timerArmed
    /\ <<"timeout">> \notin flags

\* the composite runs without a cap: throttle is 0 or absent
NoCap == pc = "running" /\ composite.throttle \in {Undefined, Num(0)}

\* C28: in a live run with throttle 0 or absent, every child of the list
\* has been launched or has its start in the queue of deferred starts, from
\* the invocation on: no start waits for a completion.
C28_NoCap ==
    (NoCap /\ live) => nextNumber + Len(queue) >= Length

\* without a cap, both children of a list of two are in flight and none has
\* completed
C28_Witness ==
    /\ NoCap
    /\ Length = 2
    /\ InFlight = {1, 2}
    /\ actionCalls = <<0, 0>>
    /\ queue = <<>>

\* a throttle that is negative or not an integer
BadThrottle ==
    /\ exists(composite.throttle)
    /\ composite.throttle.t = "number" =>
            ("fraction" \in DOMAIN composite.throttle \/ composite.throttle.n < 0)

\* C29 as stated: once a composite with an ill-typed throttle or timeLimit
\* has been invoked, whatever its list, the invocation has thrown and the
\* receiver has not been called.
C29_IllTypedRaises ==
    (pc \notin {"built", "factory"} /\ (BadThrottle \/ BadTimeLimit)) =>
        /\ pc = "threw"
        /\ thrown # NoExc
        /\ delivered = <<>>

\* the list parallel gives to checkRequestors, when the call gets that far:
\* with necessities and optionals both, the timeOption check comes first
CheckedList == composite.necesseties \o composite.optionals
ListChecked ==
    /\ pc = "factory"
    /\ Len(composite.necesseties) = 0 \/ Len(composite.optionals) = 0
\* every element is a function of one or two arguments
ProperRequestors(list) ==
    \A i \in 1..Len(list) :
        list[i].t = "function" /\ list[i].length \in {1, 2}

\* C30 as stated: the factory call that reaches the shape check returns the
\* composite if every element of the list is a function of one or two
\* arguments, and throws a reason with the list as evidence otherwise.
C30_ShapeChecked ==
    [][ListChecked =>
        IF ProperRequestors(CheckedList)
        THEN pc' = "built" /\ thrown' = NoExc
        ELSE /\ pc' = "threw"
             /\ thrown' = makeReason(FactoryName.PARALLEL,
                                     Str("Requestors must be functions"),
                                     Arr(CheckedList))]_vars

\* the children (1-based) whose completion happens in the step
CompletedInStep ==
    { i \in 1..Length : child[i].state # "completed"
                            /\ child'[i].state = "completed" }

\* C31 as stated: the action is called at most once for each child index;
\* a step of a live run in which children complete (by a receiver call or by
\* throwing when launched) calls the action once for each of them; and a
\* receiver call that completes no child (a second or later call) calls no
\* action and queues or makes no launch.
C31_ActionOncePerChild ==
    /\ [](\A i \in 1..Length : actionCalls[i] <= 1)
    /\ [][(pc = "running" /\ live) =>
            \A i \in CompletedInStep : actionCalls'[i] = actionCalls[i] + 1]_vars
    /\ [][(ChildCalls /\ child' = child) =>
            UNCHANGED <<actionCalls, queue, nextNumber, delivered,
                        numberPending, results>>]_vars

\* the indices (0-based) of the children whose launch threw into the catch
\* block of startRequestor
Caught == { idx \in 0..(Length - 1) : <<"caught", idx>> \in flags }
\* a reason that wraps what child idx threw: the thrown value as its cause,
\* the index as its evidence
WrappedThrow(idx) ==
    [t |-> "object", cause |-> ChildThrown(idx), evidence |-> Num(idx)]

\* C32 as stated: in a parallel, once the launch of child idx has thrown,
\* the action has been called once for idx and has recorded a failure whose
\* reason has the thrown value as cause and idx as evidence; if idx is a
\* necessity the receiver has been given that reason, the run is over and
\* no other child is left in flight with a cancellor that was not called;
\* and while the run is live the child after idx has been launched.
C32_ThrowBecomesFailure ==
    ParallelRun =>
        \A idx \in Caught :
            /\ actionCalls[idx + 1] = 1
            /\ idx + 1 <= Len(results)
            /\ results[idx + 1] = Result(Undefined, WrappedThrow(idx))
            /\ idx < composite.numberOfNecessities =>
                /\ delivered = <<Result(Undefined, WrappedThrow(idx))>>
                /\ ~live
                /\ \A j \in InFlight :
                        isFunction(cancellors[j]) => child[j].cancels # <<>>
            /\ (live /\ idx + 2 <= Length) => child[idx + 2].state # "idle"

\* the children (1-based) that are launched in the step
LaunchedInStep ==
    { i \in 1..Length : child[i].state = "idle" /\ child'[i].state # "idle" }

\* C33 as stated: a step (one host task) launches at most one child; the
\* invocation of the composite launches none, and neither does a receiver
\* call of a child: every launch is the work of a deferred start of its own.
C33_LaunchesDeferred ==
    /\ [][Cardinality(LaunchedInStep) <= 1]_vars
    /\ [][(pc = "built" \/ ChildCalls) => LaunchedInStep = {}]_vars

\* C34: the children that have been launched are exactly the first
\* nextNumber of the list, in every state; a step launches the children
\* that follow them and leaves a launched child launched, a completed child
\* completed, and the message a child was launched with as it is: no child
\* is launched before one of lower index, none is launched twice.
C34_LaunchOrder ==
    /\ [](pc = "running" =>
            \A i \in 1..Length : child[i].state # "idle" <=> i <= nextNumber)
    /\ [][/\ nextNumber' >= nextNumber \/ pc = "built"
          /\ \A i \in 1..Length :
                child[i].state # "idle" =>
                    /\ child'[i].state # "idle"
                    /\ child'[i].message = child[i].message
                    /\ child[i].state = "completed" =>
                            child'[i].state = "completed"]_vars

\* both children of a list of two were launched; the second has completed
\* while the first is still running
C34_Witness ==
    /\ pc = "running"
    /\ Length = 2
    /\ child[1].state = "running"
    /\ child[2].state = "completed"
    /\ actionCalls = <<0, 1>>

\* a Result has one of the two shapes: a value and no reason, or a reason
\* and no value
OneShape(result) ==
    \/ exists(result.value) /\ ~exists(result.reason)
    \/ ~exists(result.value) /\ exists(result.reason)

\* C35: every Result the composite's receiver has been given has exactly one
\* of the two shapes, a value without a reason or a reason without a value.
C35_ResultShape == \A k \in 1..Len(delivered) : OneShape(delivered[k])

\* the indices of the children whose cancellor is called in the step
CancelledInStep ==
    {cancelLog'[k][1] : k \in (Len(cancelLog) + 1)..Len(cancelLog')}

\* C36: a step of the engine calls the cancellor of no child that had
\* completed before the step, whether the child called its receiver later
\* or before it returned its cancellor.
C36_NoCancelOfCompleted ==
    [][\A i \in CancelledInStep : child[i + 1].state # "completed"]_vars

\* the action callback or the timeout callback has been invoked
CallbackInvoked ==
    \/ \E i \in 1..Len(actionCalls) : actionCalls[i] > 0
    \/ <<"timeout">> \in flags

\* C37: when the action callback or the timeout callback has been invoked,
\* run had returned its cancellor to the factory: the factory's `cancel` is
\* bound.
C37_CancelBoundBeforeCallbacks == CallbackInvoked => cancelBound

\* C38: when the invocation has raised run's configuration error, nothing
\* of it remains: no timer is armed, the timeout callback has not been
\* invoked, no start is pending and no child has been launched.
C38_NothingLeftAfterThrow ==
    pc = "threw" =>
        /\ ~timerArmed
        /\ <<"timeout">> \notin flags
        /\ queue = <<>>
        /\ \A i \in 1..Length : child[i].state = "idle"

\* a running parallel built from optionals only
OptionalsOnly ==
    /\ ParallelRun
    /\ composite.numberOfNecessities = 0
    /\ Length > 0

\* C39: a parallel built from optionals only never gives its receiver a
\* failure; once all its optionals have completed it has succeeded; and when
\* its time limit is reached first, the step cancels the optionals still
\* running and succeeds with the results recorded so far (those recorded
\* before the step, when no completion is recorded during the cancel).
C39_OptionalsOnlySucceeds ==
    /\ [](OptionalsOnly =>
            \A k \in 1..Len(delivered) : exists(delivered[k].value))
    /\ []((OptionalsOnly /\ numberPending < 1) => Succeeded)
    /\ [][(OptionalsOnly /\ TimeoutStep /\ live /\ ~Received) =>
            /\ CancelsInFlight
            /\ ~live'
            /\ Len(delivered') = 1
            /\ delivered'[1].value = Arr(results')
            /\ actionCalls' = actionCalls =>
                    delivered' = <<Result(Arr(results), Undefined)>>]_vars

\* the time limit was reached while the second of two optionals was running:
\* the parallel succeeded with the first one's result alone
C39_Witness ==
    /\ OptionalsOnly
    /\ Length = 2
    /\ <<"timeout">> \in flags
    /\ child[2].state = "running"
    /\ child[2].cancels # <<>>
    /\ Len(results) = 1
    /\ delivered = <<Result(Arr(results), Undefined)>>

\* C40: once the composite's receiver has been invoked, no timer of the
\* engine is pending and no step is the time-limit callback, whatever the
\* factory.
C40_DisarmedOnceReceived ==
    /\ [](Received => ~timerArmed /\ timerId = Undefined)
    /\ [][Received => ~TimeoutStep /\ ~timerArmed']_vars

\* a race with a time limit was won by its second child before the time
\* limit was reached: the receiver has the value and the timer is gone
C40_Witness ==
    /\ RaceRun
    /\ composite.timeLimit = Num(50)
    /\ Length = 2
    /\ <<"timeout">> \notin flags
    /\ <<"callerCancel">> \notin flags
    /\ Succeeded
    /\ actionCalls[2] = 1
    /\ ~timerArmed

====
